---- MODULE Spec2Model ----
(***************************************************************************)
(* Library lending API (src/server.js): the in-memory stores members,      *)
(* books and borrowings, and one action per request handler.  Node runs    *)
(* each handler to completion on a single thread, so a handler is one      *)
(* atomic step.                                                            *)
(***************************************************************************)
EXTENDS Integers, Sequences, FiniteSets, TLC

\* ---- bounds of the model ------------------------------------------------
\* successful Borrows in one run of Spec
MaxLedger == 2
\* successful Borrows in one run of SpecClock
MaxLedgerClock == 1
MaxLedgerSteps == 2
MaxLedgerNames == 2
\* the clock stops after this many days
MaxDays == 7

\* ---- program constants --------------------------------------------------
LoanDays == 14
MinAge == 12
\* a tick of the clock is an hour (the code counts milliseconds)
TicksPerDay == 24

MemberIds == {1, 2}
BookIds == {1, 2}
\* 0 stands for a falsy / missing id in a request body
NoId == 0
\* one name and one title: no property checked under Spec or SpecClock reads
\* a name or a title
Names == {"Ann"}
Titles == {"Emma"}
\* "" stands for a falsy / missing string in a request body
NoName == ""
\* age === undefined
NoAge == -1
Ages == {MinAge - 1, MinAge}
\* returned_at is absent until Return sets it
NoTime == -1
Day == TicksPerDay
MaxTime == MaxDays * Day
\* the amounts by which the wall clock moves between two requests
Advances == {(LoanDays * Day) \div 2}

VARIABLES
  members,     \* Map member_id -> {name, age, has_borrowed, history}
  books,       \* Map book_id -> {title, is_available}
  borrowings,  \* Map transaction_id -> borrowing, in insertion order
  now,         \* the wall clock read by new Date()
  resp,        \* the last request and the response it got
  inflight     \* per client: the request it has sent and how far its handler is

vars == <<members, books, borrowings, now, resp, inflight>>

\* ---- JavaScript Map, as the sequence of its entries in insertion order --
MapKeys(map) == {map[i].key : i \in 1..Len(map)}
MapHas(map, k) == k \in MapKeys(map)
MapSize(map) == Len(map)
MapIndex(map, k) == CHOOSE i \in 1..Len(map) : map[i].key = k
MapGet(map, k) == map[MapIndex(map, k)].val
\* set keeps the position of an existing key and appends a new one
MapSet(map, k, v) ==
  IF MapHas(map, k)
  THEN [map EXCEPT ![MapIndex(map, k)] = [key |-> k, val |-> v]]
  ELSE Append(map, [key |-> k, val |-> v])
MapValues(map) == [i \in 1..Len(map) |-> map[i].val]

\* members and books are only ever looked up by key: a function on the keys
Has(store, k) == k \in DOMAIN store
Put(store, k, v) == [x \in DOMAIN store \cup {k} |-> IF x = k THEN v ELSE store[x]]
Remove(store, k) == [x \in DOMAIN store \ {k} |-> store[x]]

\* ---- responses ----------------------------------------------------------
\* body is the sequence a query answers with, and empty for the other requests
Response(op, member_id, book_id, status, error, transaction_id) ==
  [op |-> op, member_id |-> member_id, book_id |-> book_id,
   status |-> status, error |-> error, transaction_id |-> transaction_id,
   body |-> <<>>]

\* res.json({...}) of a query
Reply(op, member_id, body) ==
  [Response(op, member_id, NoId, 200, "", 0) EXCEPT !.body = body]

NoResponse == Response("none", NoId, NoId, 0, "", 0)

\* return res.status(status).json({message}): nothing was written before it
Reject(op, member_id, book_id, status, error) ==
  /\ resp' = Response(op, member_id, book_id, status, error, 0)
  /\ UNCHANGED <<members, books, borrowings, now, inflight>>

Outcome(status, error) == [status |-> status, error |-> error]
Passed == Outcome(200, "")

\* ---- the local time of the process ---------------------------------------
\* Date.prototype.getDate and setDate read and write the local calendar day.
\* The zone of the process is one that leaves daylight saving time at DstEnd,
\* where its clocks are set back an hour; from DstEnd on it is a zone with a
\* constant offset, as UTC is.
DstEnd == (LoanDays * Day) \div 2
UtcOffset(t) == IF t < DstEnd THEN 1 ELSE 0
ToLocal(t) == t + UtcOffset(t)
\* the instant a local time names (the earlier one where the hour repeats)
ToUtc(local) == IF local - 1 < DstEnd THEN local - 1 ELSE local

\* dueDate.setDate(now.getDate() + days): the same local time, days later
setDate(t, days) == ToUtc(ToLocal(t) + days * Day)

\* the clients that hold a connection to the server
Clients == {1, 2}

InFlight(pc, op, member_id, book_id, borrowing, found) ==
  [pc |-> pc, op |-> op, member_id |-> member_id, book_id |-> book_id,
   borrowing |-> borrowing, found |-> found]

NoRequest == InFlight("none", "none", NoId, NoId, <<>>, 0)

EmptyStore == [x \in {} |-> x]

Init ==
  /\ members = EmptyStore
  /\ books = EmptyStore
  /\ borrowings = <<>>
  /\ now = 0
  /\ resp = NoResponse
  /\ inflight = [c \in Clients |-> NoRequest]

\* ---- Q1: create member --------------------------------------------------
CreateMember(member_id, name, age) ==
  IF member_id = NoId \/ name = NoName \/ age = NoAge
  THEN Reject("create_member", member_id, NoId, 400, "required")
  ELSE IF Has(members, member_id)
  THEN Reject("create_member", member_id, NoId, 400, "exists")
  ELSE IF age < MinAge
  THEN Reject("create_member", member_id, NoId, 400, "age")
  ELSE /\ members' = Put(members, member_id,
                         [name |-> name, age |-> age, has_borrowed |-> FALSE,
                          history |-> <<>>])
       /\ resp' = Response("create_member", member_id, NoId, 200, "", 0)
       /\ UNCHANGED <<books, borrowings, now, inflight>>

\* ---- Q4: update member info ---------------------------------------------
\* UpdateMember that carries the new name into the member's borrowings
UpdateMemberRenamesLedger(id, name, age) ==
  IF ~Has(members, id)
  THEN Reject("update_member", id, NoId, 404, "member")
  ELSE IF age # NoAge /\ age < MinAge
  THEN Reject("update_member", id, NoId, 400, "age")
  ELSE /\ members' = Put(members, id,
                         [members[id] EXCEPT
                            !.name = IF name # NoName THEN name ELSE @,
                            !.age = IF age # NoAge /\ age # 0 THEN age ELSE @])
       /\ borrowings' = [i \in 1..Len(borrowings) |->
                          IF borrowings[i].val.member_id = id /\ name # NoName
                          THEN [borrowings[i] EXCEPT !.val.member_name = name]
                          ELSE borrowings[i]]
       /\ resp' = Response("update_member", id, NoId, 200, "", 0)
       /\ UNCHANGED <<books, now, inflight>>

UpdateMember(id, name, age) ==
  IF ~Has(members, id)
  THEN Reject("update_member", id, NoId, 404, "member")
  ELSE IF age # NoAge /\ age < MinAge
  THEN Reject("update_member", id, NoId, 400, "age")
  ELSE /\ members' = Put(members, id,
                         [members[id] EXCEPT
                            !.name = IF name # NoName THEN name ELSE @,
                            !.age = IF age # NoAge /\ age # 0 THEN age ELSE @])
       /\ resp' = Response("update_member", id, NoId, 200, "", 0)
       /\ UNCHANGED <<books, borrowings, now, inflight>>

\* ---- Q5: borrow book ----------------------------------------------------
\* BorrowError with the two state checks in the other order
BorrowErrorBookFirst(member_id, book_id) ==
  IF ~Has(members, member_id) THEN Outcome(404, "member")
  ELSE IF ~Has(books, book_id) THEN Outcome(404, "book")
  ELSE IF ~books[book_id].is_available THEN Outcome(400, "unavailable")
  ELSE IF members[member_id].has_borrowed THEN Outcome(400, "already-borrowed")
  ELSE Passed

\* the four early returns of the handler, in the order of the code
BorrowError(member_id, book_id) ==
  IF ~Has(members, member_id) THEN Outcome(404, "member")
  ELSE IF ~Has(books, book_id) THEN Outcome(404, "book")
  ELSE IF members[member_id].has_borrowed THEN Outcome(400, "already-borrowed")
  ELSE IF ~books[book_id].is_available THEN Outcome(400, "unavailable")
  ELSE Passed

\* the id counted from the borrowings that are still active
NextTransactionIdOfActive ==
  Cardinality({i \in 1..Len(borrowings) : borrowings[i].val.status = "active"}) + 1

\* const transaction_id = borrowings.size + 1
NextTransactionId == MapSize(borrowings) + 1

NewBorrowing(transaction_id, member_id, book_id) ==
  [transaction_id |-> transaction_id,
   member_id |-> member_id,
   member_name |-> members[member_id].name,
   book_id |-> book_id,
   book_title |-> books[book_id].title,
   borrowed_at |-> now,
   due_date |-> setDate(now, LoanDays),
   status |-> "active",
   returned_at |-> NoTime]

\* BorrowCommit with member.history = [borrowing] for member.history.push
BorrowCommitResetsHistory(member_id, book_id) ==
  LET transaction_id == NextTransactionId
      borrowing == NewBorrowing(transaction_id, member_id, book_id)
  IN /\ borrowings' = MapSet(borrowings, transaction_id, borrowing)
     /\ members' = [members EXCEPT
                      ![member_id].has_borrowed = TRUE,
                      ![member_id].history = <<transaction_id>>]
     /\ books' = [books EXCEPT ![book_id].is_available = FALSE]
     /\ resp' = Response("borrow", member_id, book_id, 200, "", transaction_id)
     /\ UNCHANGED <<now, inflight>>

\* BorrowCommit that marks every book of the store as lent out
BorrowCommitMarksEveryBook(member_id, book_id) ==
  LET transaction_id == NextTransactionId
      borrowing == NewBorrowing(transaction_id, member_id, book_id)
  IN /\ borrowings' = MapSet(borrowings, transaction_id, borrowing)
     /\ members' = [members EXCEPT
                      ![member_id].has_borrowed = TRUE,
                      ![member_id].history = Append(@, transaction_id)]
     /\ books' = [b \in DOMAIN books |-> [books[b] EXCEPT !.is_available = FALSE]]
     /\ resp' = Response("borrow", member_id, book_id, 200, "", transaction_id)
     /\ UNCHANGED <<now, inflight>>

\* member.history holds the borrowing objects themselves, the same objects
\* the borrowings Map holds: an entry of history is the key of that object.
BorrowCommit(member_id, book_id) ==
  LET transaction_id == NextTransactionId
      borrowing == NewBorrowing(transaction_id, member_id, book_id)
  IN /\ borrowings' = MapSet(borrowings, transaction_id, borrowing)
     /\ members' = [members EXCEPT
                      ![member_id].has_borrowed = TRUE,
                      ![member_id].history = Append(@, transaction_id)]
     /\ books' = [books EXCEPT ![book_id].is_available = FALSE]
     /\ resp' = Response("borrow", member_id, book_id, 200, "", transaction_id)
     /\ UNCHANGED <<now, inflight>>

\* Borrow that sets the member's flag before it looks at the book's
BorrowWritesEarly(member_id, book_id) ==
  LET e == BorrowError(member_id, book_id)
  IN IF e = Outcome(400, "unavailable")
     THEN /\ members' = [members EXCEPT ![member_id].has_borrowed = TRUE]
          /\ resp' = Response("borrow", member_id, book_id, e.status, e.error, 0)
          /\ UNCHANGED <<books, borrowings, now, inflight>>
     ELSE IF e # Passed
     THEN Reject("borrow", member_id, book_id, e.status, e.error)
     ELSE BorrowCommit(member_id, book_id)

Borrow(member_id, book_id) ==
  LET e == BorrowError(member_id, book_id)
  IN IF e # Passed
     THEN Reject("borrow", member_id, book_id, e.status, e.error)
     ELSE BorrowCommit(member_id, book_id)

\* ---- Q6: return book ----------------------------------------------------
\* FindActive without b.member_id === member_id
FindActiveOfAnyMember(member_id, book_id) ==
  LET values == MapValues(borrowings)
      hits == {i \in 1..Len(values) :
                 /\ values[i].book_id = book_id
                 /\ values[i].status = "active"}
  IN IF hits = {} THEN 0 ELSE CHOOSE i \in hits : \A j \in hits : i <= j

\* FindActive without b.status === "active"
FindOfAnyStatus(member_id, book_id) ==
  LET values == MapValues(borrowings)
      hits == {i \in 1..Len(values) :
                 /\ values[i].member_id = member_id
                 /\ values[i].book_id = book_id}
  IN IF hits = {} THEN 0 ELSE CHOOSE i \in hits : \A j \in hits : i <= j

\* [...borrowings.values()].find(...): index of the first match, 0 for none
FindActive(member_id, book_id) ==
  LET values == MapValues(borrowings)
      hits == {i \in 1..Len(values) :
                 /\ values[i].member_id = member_id
                 /\ values[i].book_id = book_id
                 /\ values[i].status = "active"}
  IN IF hits = {} THEN 0 ELSE CHOOSE i \in hits : \A j \in hits : i <= j

\* ReturnCommit without book.is_available = true
ReturnCommitKeepsBook(member_id, book_id, i) ==
  /\ borrowings' = [borrowings EXCEPT ![i].val.status = "returned",
                                      ![i].val.returned_at = now]
  /\ members' = [members EXCEPT ![member_id].has_borrowed = FALSE]
  /\ resp' = Response("return", member_id, book_id, 200, "",
                      borrowings[i].val.transaction_id)
  /\ UNCHANGED <<books, now, inflight>>

\* ReturnCommit without member.has_borrowed = false
ReturnCommitKeepsFlag(member_id, book_id, i) ==
  /\ borrowings' = [borrowings EXCEPT ![i].val.status = "returned",
                                      ![i].val.returned_at = now]
  /\ books' = [books EXCEPT ![book_id].is_available = TRUE]
  /\ resp' = Response("return", member_id, book_id, 200, "",
                      borrowings[i].val.transaction_id)
  /\ UNCHANGED <<members, now, inflight>>

\* i is the entry of the borrowing that find() returned
ReturnCommit(member_id, book_id, i) ==
  /\ borrowings' = [borrowings EXCEPT ![i].val.status = "returned",
                                      ![i].val.returned_at = now]
  /\ members' = [members EXCEPT ![member_id].has_borrowed = FALSE]
  /\ IF Has(books, book_id)
     THEN /\ books' = [books EXCEPT ![book_id].is_available = TRUE]
          /\ resp' = Response("return", member_id, book_id, 200, "",
                              borrowings[i].val.transaction_id)
     \* books.get(book_id) is undefined: the assignment throws
     ELSE /\ books' = books
          /\ resp' = Response("return", member_id, book_id, 500, "TypeError", 0)
  /\ UNCHANGED <<now, inflight>>

Return(member_id, book_id) ==
  IF ~Has(members, member_id)
  THEN Reject("return", member_id, book_id, 404, "member")
  ELSE IF FindActive(member_id, book_id) = 0
  THEN Reject("return", member_id, book_id, 400, "no-active-borrowing")
  ELSE ReturnCommit(member_id, book_id, FindActive(member_id, book_id))

\* ---- Q7: list borrowed books ---------------------------------------------
BorrowedView(b) ==
  [transaction_id |-> b.transaction_id,
   member_id |-> b.member_id,
   member_name |-> b.member_name,
   book_id |-> b.book_id,
   book_title |-> b.book_title,
   borrowed_at |-> b.borrowed_at,
   due_date |-> b.due_date]

IsActive(b) == b.status = "active"

\* BorrowedBooks with the newest borrowing first
BorrowedBooksNewestFirst ==
  LET kept == SelectSeq(MapValues(borrowings), IsActive)
  IN [j \in 1..Len(kept) |-> BorrowedView(kept[Len(kept) + 1 - j])]

\* [...borrowings.values()].filter(...).map(...)
BorrowedBooks ==
  LET kept == SelectSeq(MapValues(borrowings), IsActive)
  IN [j \in 1..Len(kept) |-> BorrowedView(kept[j])]

ListBorrowed ==
  /\ resp' = Reply("borrowed", NoId, BorrowedBooks)
  /\ UNCHANGED <<members, books, borrowings, now, inflight>>

\* ---- Q8: get borrowing history -----------------------------------------
\* b.returned_at || null: an absent returned_at is shown as null
OrNull(returned_at) == IF returned_at = NoTime THEN NoTime ELSE returned_at

\* HistoryView of a copy of the borrowing taken when it was made
HistoryViewOfCopy(b) ==
  [transaction_id |-> b.transaction_id,
   book_id |-> b.book_id,
   book_title |-> b.book_title,
   borrowed_at |-> b.borrowed_at,
   returned_at |-> NoTime,
   status |-> "active"]

HistoryView(b) ==
  [transaction_id |-> b.transaction_id,
   book_id |-> b.book_id,
   book_title |-> b.book_title,
   borrowed_at |-> b.borrowed_at,
   returned_at |-> OrNull(b.returned_at),
   status |-> b.status]

\* BorrowingHistory with the newest borrowing first
BorrowingHistoryNewestFirst(id) ==
  LET n == Len(members[id].history)
  IN [j \in 1..n |-> HistoryView(MapGet(borrowings, members[id].history[n + 1 - j]))]

\* member.history.map(...): each entry is the borrowing object in the ledger
BorrowingHistory(id) ==
  [j \in 1..Len(members[id].history) |->
     HistoryView(MapGet(borrowings, members[id].history[j]))]

History(id) ==
  IF ~Has(members, id)
  THEN Reject("history", id, NoId, 404, "member")
  ELSE /\ resp' = Reply("history", id, BorrowingHistory(id))
       /\ UNCHANGED <<members, books, borrowings, now, inflight>>

\* ---- Q9: delete member --------------------------------------------------
\* DeleteMember without the look at member.has_borrowed
DeleteMemberUnchecked(id) ==
  IF ~Has(members, id)
  THEN Reject("delete_member", id, NoId, 404, "member")
  ELSE /\ members' = Remove(members, id)
       /\ resp' = Response("delete_member", id, NoId, 200, "", 0)
       /\ UNCHANGED <<books, borrowings, now, inflight>>

DeleteMember(id) ==
  IF ~Has(members, id)
  THEN Reject("delete_member", id, NoId, 404, "member")
  ELSE IF members[id].has_borrowed
  THEN Reject("delete_member", id, NoId, 400, "active-borrowing")
  ELSE /\ members' = Remove(members, id)
       /\ resp' = Response("delete_member", id, NoId, 200, "", 0)
       /\ UNCHANGED <<books, borrowings, now, inflight>>

\* ---- Q10: get overdue books ---------------------------------------------
\* Math.floor((now - new Date(b.due_date)) / (1000 * 60 * 60 * 24))
DaysOverdue(b) ==
  LET elapsed == now - b.due_date
  IN IF elapsed >= 0 THEN elapsed \div Day ELSE -((-elapsed + Day - 1) \div Day)

OverdueView(b) ==
  [transaction_id |-> b.transaction_id,
   member_id |-> b.member_id,
   member_name |-> b.member_name,
   book_id |-> b.book_id,
   book_title |-> b.book_title,
   borrowed_at |-> b.borrowed_at,
   due_date |-> b.due_date,
   days_overdue |-> DaysOverdue(b)]

\* IsOverdue that also takes a borrowing due at this very instant
IsOverdueAtDueDate(b) == b.status = "active" /\ b.due_date <= now

\* b.status === "active" && new Date(b.due_date) < now
IsOverdue(b) == b.status = "active" /\ b.due_date < now

OverdueBooks ==
  LET kept == SelectSeq(MapValues(borrowings), IsOverdue)
  IN [j \in 1..Len(kept) |-> OverdueView(kept[j])]

Overdue ==
  /\ resp' = Reply("overdue", NoId, OverdueBooks)
  /\ UNCHANGED <<members, books, borrowings, now, inflight>>

\* ---- Q11: add book ------------------------------------------------------
\* author and isbn are stored and never read: only their presence is checked,
\* and a missing one is a missing title here.
AddBook(book_id, title) ==
  IF book_id = NoId \/ title = NoName
  THEN Reject("add_book", NoId, book_id, 400, "required")
  ELSE IF Has(books, book_id)
  THEN Reject("add_book", NoId, book_id, 400, "exists")
  ELSE /\ books' = Put(books, book_id, [title |-> title, is_available |-> TRUE])
       /\ resp' = Response("add_book", NoId, book_id, 200, "", 0)
       /\ UNCHANGED <<members, borrowings, now, inflight>>

\* ---- Q15: delete book ---------------------------------------------------
\* DeleteBook without the look through the ledger for an active borrowing
DeleteBookUnchecked(id) ==
  IF ~Has(books, id)
  THEN Reject("delete_book", NoId, id, 404, "book")
  ELSE /\ books' = Remove(books, id)
       /\ resp' = Response("delete_book", NoId, id, 200, "", 0)
       /\ UNCHANGED <<members, borrowings, now, inflight>>

\* DeleteBook that looks at the newest borrowing only
DeleteBookLooksAtLast(id) ==
  IF ~Has(books, id)
  THEN Reject("delete_book", NoId, id, 404, "book")
  ELSE IF /\ Len(borrowings) > 0
          /\ borrowings[Len(borrowings)].val.book_id = id
          /\ borrowings[Len(borrowings)].val.status = "active"
  THEN Reject("delete_book", NoId, id, 400, "borrowed")
  ELSE /\ books' = Remove(books, id)
       /\ resp' = Response("delete_book", NoId, id, 200, "", 0)
       /\ UNCHANGED <<members, borrowings, now, inflight>>

DeleteBook(id) ==
  IF ~Has(books, id)
  THEN Reject("delete_book", NoId, id, 404, "book")
  ELSE IF \E i \in 1..Len(borrowings) :
            borrowings[i].val.book_id = id /\ borrowings[i].val.status = "active"
  THEN Reject("delete_book", NoId, id, 400, "borrowed")
  ELSE /\ books' = Remove(books, id)
       /\ resp' = Response("delete_book", NoId, id, 200, "", 0)
       /\ UNCHANGED <<members, borrowings, now, inflight>>

\* ---- the wall clock moves on between two requests ------------------------
Tick(d) ==
  /\ now + d <= MaxTime
  /\ now' = now + d
  /\ UNCHANGED <<members, books, borrowings, resp, inflight>>

\* the instants at which requests arrive in SpecOverdue: around the due date
\* of a borrowing made when the server started
Instants == {LoanDays * Day + 1, (LoanDays + 1) * Day, (LoanDays + 6) * Day}

TickTo(t) ==
  /\ now < t
  /\ now' = t
  /\ UNCHANGED <<members, books, borrowings, resp, inflight>>

\* a Borrow that would grow the ledger beyond limit is not issued
BorrowRequest(member_id, book_id, limit) ==
  /\ BorrowError(member_id, book_id) = Passed => MapSize(borrowings) < limit
  /\ Borrow(member_id, book_id)

\* one request to one of the handlers, its inputs drawn from the given sets
RequestWith(limit, names, titles, ages) ==
  \/ \E member_id \in MemberIds \cup {NoId}, name \in names, age \in ages :
        CreateMember(member_id, name, age)
  \/ \E id \in MemberIds, name \in names, age \in ages : UpdateMember(id, name, age)
  \/ \E member_id \in MemberIds, book_id \in BookIds :
        BorrowRequest(member_id, book_id, limit)
  \/ \E member_id \in MemberIds, book_id \in BookIds : Return(member_id, book_id)
  \/ ListBorrowed
  \/ \E id \in MemberIds : History(id)
  \/ \E id \in MemberIds : DeleteMember(id)
  \/ Overdue
  \/ \E book_id \in BookIds \cup {NoId}, title \in titles : AddBook(book_id, title)
  \/ \E id \in BookIds : DeleteBook(id)

\* a request with every input: the names, titles and ages, or none
Request(limit) ==
  RequestWith(limit, Names \cup {NoName}, Titles \cup {NoName}, Ages \cup {NoAge})

\* the requests alone: every timestamp is the time the server started at
Next == Request(MaxLedger)

Spec == Init /\ [][Next]_vars

\* the requests with the clock moving between them
NextClock ==
  \/ Request(MaxLedgerClock)
  \/ \E d \in Advances : Tick(d)

SpecClock == Init /\ [][NextClock]_vars

\* the requests at instants before, at and after a due date
NextOverdue ==
  \/ RequestWith(MaxLedgerClock, Names, Titles, {MinAge})
  \/ \E t \in Instants : TickTo(t)

SpecOverdue == Init /\ [][NextOverdue]_vars

\* the requests with names and titles that differ from one request to the next
OtherNames == Names \cup {"Bob"}
OtherTitles == Titles \cup {"Ulysses"}

\* the member and the book whose borrowings are followed
NamedMembers == {1}
NamedBooks == {1}

NextNames ==
  \/ \E member_id \in NamedMembers, name \in OtherNames :
        CreateMember(member_id, name, MinAge)
  \/ \E id \in NamedMembers, name \in OtherNames : UpdateMember(id, name, NoAge)
  \/ \E member_id \in NamedMembers, book_id \in NamedBooks :
        BorrowRequest(member_id, book_id, MaxLedgerNames)
  \/ \E member_id \in NamedMembers, book_id \in NamedBooks :
        Return(member_id, book_id)
  \/ ListBorrowed
  \/ \E id \in NamedMembers : History(id)
  \/ \E id \in NamedMembers : DeleteMember(id)
  \/ Overdue
  \/ \E book_id \in NamedBooks, title \in OtherTitles : AddBook(book_id, title)
  \/ \E id \in NamedBooks : DeleteBook(id)

SpecNames == Init /\ [][NextNames]_vars

\* ---- the handlers of Borrow and Return, statement by statement ------------
\* a client sends a request; it waits in the event loop until it is dispatched
Arrive(c, op, member_id, book_id) ==
  /\ inflight[c] = NoRequest
  /\ inflight' = [inflight EXCEPT
                    ![c] = InFlight("pending", op, member_id, book_id, <<>>, 0)]
  /\ UNCHANGED <<members, books, borrowings, now, resp>>

Finish(c, status, error, transaction_id) ==
  /\ resp' = Response(inflight[c].op, inflight[c].member_id, inflight[c].book_id,
                      status, error, transaction_id)
  /\ inflight' = [inflight EXCEPT ![c] = NoRequest]

Goto(c, pc) == inflight' = [inflight EXCEPT ![c].pc = pc]

\* a handler is called whatever the other handlers are doing
IdleAlways == TRUE

\* The handlers are synchronous functions: they hold the one thread of the
\* event loop from their first statement to their last, and the next
\* request is dispatched only when no handler is on the call stack.
Idle == \A c \in Clients : inflight[c].pc \in {"none", "pending"}

\* lines 78-101: the checks, then the borrowing object is built
BorrowStart(c, limit) ==
  LET q == inflight[c]
      e == BorrowError(q.member_id, q.book_id)
  IN /\ Idle
     /\ q.pc = "pending" /\ q.op = "borrow"
     /\ IF e # Passed
        THEN /\ Finish(c, e.status, e.error, 0)
             /\ UNCHANGED <<members, books, borrowings, now>>
        ELSE /\ MapSize(borrowings) < limit
             /\ inflight' = [inflight EXCEPT
                  ![c].pc = "set",
                  ![c].borrowing =
                     <<NewBorrowing(NextTransactionId, q.member_id, q.book_id)>>]
             /\ UNCHANGED <<members, books, borrowings, now, resp>>

\* borrowings.set(transaction_id, borrowing)
BorrowSet(c) ==
  /\ inflight[c].pc = "set" /\ inflight[c].op = "borrow"
  /\ borrowings' = MapSet(borrowings, inflight[c].borrowing[1].transaction_id,
                          inflight[c].borrowing[1])
  /\ Goto(c, "flag")
  /\ UNCHANGED <<members, books, now, resp>>

\* member.has_borrowed = true
BorrowFlag(c) ==
  /\ inflight[c].pc = "flag" /\ inflight[c].op = "borrow"
  /\ members' = [members EXCEPT ![inflight[c].member_id].has_borrowed = TRUE]
  /\ Goto(c, "push")
  /\ UNCHANGED <<books, borrowings, now, resp>>

\* member.history.push(borrowing)
BorrowPush(c) ==
  /\ inflight[c].pc = "push" /\ inflight[c].op = "borrow"
  /\ members' = [members EXCEPT ![inflight[c].member_id].history =
                   Append(@, inflight[c].borrowing[1].transaction_id)]
  /\ Goto(c, "book")
  /\ UNCHANGED <<books, borrowings, now, resp>>

\* book.is_available = false
BorrowBook(c) ==
  /\ inflight[c].pc = "book" /\ inflight[c].op = "borrow"
  /\ books' = [books EXCEPT ![inflight[c].book_id].is_available = FALSE]
  /\ Goto(c, "json")
  /\ UNCHANGED <<members, borrowings, now, resp>>

\* res.json(borrowing)
BorrowJson(c) ==
  /\ inflight[c].pc = "json" /\ inflight[c].op = "borrow"
  /\ Finish(c, 200, "", inflight[c].borrowing[1].transaction_id)
  /\ UNCHANGED <<members, books, borrowings, now>>

\* lines 115-120: the member is looked up, the active borrowing is searched
ReturnStart(c) ==
  LET q == inflight[c]
  IN /\ Idle
     /\ q.pc = "pending" /\ q.op = "return"
     /\ IF ~Has(members, q.member_id)
        THEN /\ Finish(c, 404, "member", 0)
             /\ UNCHANGED <<members, books, borrowings, now>>
        ELSE IF FindActive(q.member_id, q.book_id) = 0
        THEN /\ Finish(c, 400, "no-active-borrowing", 0)
             /\ UNCHANGED <<members, books, borrowings, now>>
        ELSE /\ inflight' = [inflight EXCEPT
                  ![c].pc = "status",
                  ![c].found = FindActive(q.member_id, q.book_id)]
             /\ UNCHANGED <<members, books, borrowings, now, resp>>

\* borrowing.status = "returned"
ReturnStatus(c) ==
  /\ inflight[c].pc = "status" /\ inflight[c].op = "return"
  /\ borrowings' = [borrowings EXCEPT ![inflight[c].found].val.status = "returned"]
  /\ Goto(c, "returned_at")
  /\ UNCHANGED <<members, books, now, resp>>

\* borrowing.returned_at = new Date().toISOString()
ReturnAt(c) ==
  /\ inflight[c].pc = "returned_at" /\ inflight[c].op = "return"
  /\ borrowings' = [borrowings EXCEPT ![inflight[c].found].val.returned_at = now]
  /\ Goto(c, "flag")
  /\ UNCHANGED <<members, books, now, resp>>

\* member.has_borrowed = false
ReturnFlag(c) ==
  /\ inflight[c].pc = "flag" /\ inflight[c].op = "return"
  /\ members' = [members EXCEPT ![inflight[c].member_id].has_borrowed = FALSE]
  /\ Goto(c, "book")
  /\ UNCHANGED <<books, borrowings, now, resp>>

\* const book = books.get(book_id); book.is_available = true
ReturnBook(c) ==
  /\ inflight[c].pc = "book" /\ inflight[c].op = "return"
  /\ IF Has(books, inflight[c].book_id)
     THEN /\ books' = [books EXCEPT ![inflight[c].book_id].is_available = TRUE]
          /\ Goto(c, "json")
          /\ UNCHANGED resp
     ELSE /\ Finish(c, 500, "TypeError", 0)
          /\ UNCHANGED books
  /\ UNCHANGED <<members, borrowings, now>>

\* res.json(borrowing)
ReturnJson(c) ==
  /\ inflight[c].pc = "json" /\ inflight[c].op = "return"
  /\ Finish(c, 200, "", borrowings[inflight[c].found].val.transaction_id)
  /\ UNCHANGED <<members, books, borrowings, now>>

\* the book the clients compete for
StepBooks == {1}

\* the clients send Borrow and Return requests whenever they like; the
\* other handlers run, as one step each, when the event loop is idle
NextSteps ==
  \/ \E c \in Clients, op \in {"borrow", "return"},
        member_id \in MemberIds, book_id \in StepBooks :
        Arrive(c, op, member_id, book_id)
  \/ \E c \in Clients : BorrowStart(c, MaxLedgerSteps)
  \/ \E c \in Clients : BorrowSet(c)
  \/ \E c \in Clients : BorrowFlag(c)
  \/ \E c \in Clients : BorrowPush(c)
  \/ \E c \in Clients : BorrowBook(c)
  \/ \E c \in Clients : BorrowJson(c)
  \/ \E c \in Clients : ReturnStart(c)
  \/ \E c \in Clients : ReturnStatus(c)
  \/ \E c \in Clients : ReturnAt(c)
  \/ \E c \in Clients : ReturnFlag(c)
  \/ \E c \in Clients : ReturnBook(c)
  \/ \E c \in Clients : ReturnJson(c)
  \/ \E member_id \in MemberIds, name \in Names :
        Idle /\ CreateMember(member_id, name, MinAge)
  \/ \E book_id \in StepBooks, title \in Titles : Idle /\ AddBook(book_id, title)
  \/ Idle /\ ListBorrowed
  \/ \E id \in MemberIds : Idle /\ History(id)
  \/ \E id \in MemberIds : Idle /\ DeleteMember(id)
  \/ \E id \in StepBooks : Idle /\ DeleteBook(id)

SpecSteps == Init /\ [][NextSteps]_vars

\* ---- vocabulary of the properties ---------------------------------------
\* every handler leaves the clock alone and every Tick moves it: a step that
\* keeps now and ends with resp.op = op is the handling of one op request
Handled(op) == now' = now /\ resp'.op = op

Ledger == MapValues(borrowings)
ActiveOfMember(m) ==
  {i \in 1..Len(Ledger) : Ledger[i].member_id = m /\ Ledger[i].status = "active"}
ActiveOfBook(b) ==
  {i \in 1..Len(Ledger) : Ledger[i].book_id = b /\ Ledger[i].status = "active"}
StoresUnchanged == UNCHANGED <<members, books, borrowings>>

\* C1: for every existing member, has_borrowed is true iff the ledger holds
\* exactly one active borrowing of that member, and no member id ever has
\* two active borrowings.
C1_HasBorrowedIffOneActive ==
  /\ \A m \in DOMAIN members :
       members[m].has_borrowed <=> Cardinality(ActiveOfMember(m)) = 1
  /\ \A m \in MemberIds : Cardinality(ActiveOfMember(m)) <= 1

\* a member holds a book again after having returned one, next to a member
\* who holds none
C1_Witness ==
  \E m \in DOMAIN members, n \in DOMAIN members :
    /\ members[m].has_borrowed
    /\ ~members[n].has_borrowed
    /\ \E i \in 1..Len(Ledger) : Ledger[i].member_id = m /\ Ledger[i].status = "returned"

\* C2: for every existing book, is_available is false iff the ledger holds
\* exactly one active borrowing of that book, and no book id ever has two
\* active borrowings.
C2_UnavailableIffOneActive ==
  /\ \A b \in DOMAIN books :
       ~books[b].is_available <=> Cardinality(ActiveOfBook(b)) = 1
  /\ \A b \in BookIds : Cardinality(ActiveOfBook(b)) <= 1

\* a book that was borrowed and returned, then deleted, has just been added
\* again under the same id
C2_Witness ==
  /\ resp.op = "add_book" /\ resp.status = 200
  /\ books[resp.book_id].is_available
  /\ \E i \in 1..Len(Ledger) :
       Ledger[i].book_id = resp.book_id /\ Ledger[i].status = "returned"

\* C3: a Borrow or a Return answered with NotFound (404) or Conflict / Invalid
\* (400) leaves the ledger, every member record and every book record as
\* they were before the request.
C3_RejectedLeavesStores ==
  [][(resp'.op \in {"borrow", "return"} /\ resp'.status \in {400, 404})
       => StoresUnchanged]_vars

\* a Borrow of a book that another member holds was rejected as unavailable
C3_Witness ==
  /\ resp.op = "borrow" /\ resp.status = 400 /\ resp.error = "unavailable"
  /\ \E i \in ActiveOfBook(resp.book_id) : Ledger[i].member_id # resp.member_id

\* C4: Borrow reports the first failing precondition in the order member
\* exists, book exists, member has no active borrowing, book is available,
\* and succeeds exactly when all four hold.
C4_BorrowFirstFailureWins ==
  [][Handled("borrow") =>
       LET m == resp'.member_id
           b == resp'.book_id
           r == <<resp'.status, resp'.error>>
       IN /\ m \notin DOMAIN members => r = <<404, "member">>
          /\ (m \in DOMAIN members /\ b \notin DOMAIN books) => r = <<404, "book">>
          /\ (m \in DOMAIN members /\ b \in DOMAIN books /\ members[m].has_borrowed)
               => r = <<400, "already-borrowed">>
          /\ (m \in DOMAIN members /\ b \in DOMAIN books /\ ~members[m].has_borrowed
                /\ ~books[b].is_available)
               => r = <<400, "unavailable">>
          /\ resp'.status = 200 <=>
               (/\ m \in DOMAIN members /\ b \in DOMAIN books
                /\ ~members[m].has_borrowed /\ books[b].is_available)]_vars

\* a member who holds a book asked for a book that is not available, and was
\* told already-borrowed
C4_Witness ==
  /\ resp.op = "borrow" /\ resp.error = "already-borrowed"
  /\ resp.book_id \in DOMAIN books
  /\ ~books[resp.book_id].is_available

\* C5: Return answers NotFound(member) when the member does not exist,
\* otherwise Invalid(no-active-borrowing) unless the ledger holds an active
\* record with exactly that member_id and book_id, and succeeds otherwise.
C5_ReturnPreconditions ==
  [][Handled("return") =>
       LET m == resp'.member_id
           b == resp'.book_id
           r == <<resp'.status, resp'.error>>
           held == \E i \in 1..Len(Ledger) :
                     /\ Ledger[i].member_id = m
                     /\ Ledger[i].book_id = b
                     /\ Ledger[i].status = "active"
       IN /\ m \notin DOMAIN members => r = <<404, "member">>
          /\ (m \in DOMAIN members /\ ~held) => r = <<400, "no-active-borrowing">>
          /\ (m \in DOMAIN members /\ held) => r = <<200, "">>]_vars

\* a member tried to return a book that a different member holds
C5_Witness ==
  /\ resp.op = "return" /\ resp.error = "no-active-borrowing"
  /\ resp.member_id \in DOMAIN members
  /\ \E i \in ActiveOfBook(resp.book_id) : Ledger[i].member_id # resp.member_id

\* C6: a borrowing enters the ledger as active, stays in the ledger, and once
\* it is returned no step makes it active again or changes its returned_at.
C6_StatusOnlyForward ==
  [][/\ Len(borrowings) <= Len(borrowings')
     /\ \A i \in 1..Len(borrowings) :
          /\ borrowings'[i].key = borrowings[i].key
          /\ borrowings[i].val.status = "returned" =>
               /\ borrowings'[i].val.status = "returned"
               /\ borrowings'[i].val.returned_at = borrowings[i].val.returned_at
     /\ \A i \in Len(borrowings) + 1..Len(borrowings') :
          /\ borrowings'[i].val.status = "active"
          /\ borrowings'[i].val.returned_at = NoTime]_vars

\* a borrowing was returned, the clock moved on, and its member asked to
\* return the same book once more
C6_Witness ==
  /\ resp.op = "return" /\ resp.status = 400
  /\ \E i \in 1..Len(Ledger) :
       /\ Ledger[i].member_id = resp.member_id
       /\ Ledger[i].book_id = resp.book_id
       /\ Ledger[i].status = "returned"
       /\ Ledger[i].returned_at < now

\* C7: the transaction_id a successful Borrow assigns is the ledger size + 1,
\* is greater than every id assigned before it and is no key of the ledger,
\* so the new record is added next to the existing ones and replaces none.
C7_TransactionIdsIncrease ==
  [][(Handled("borrow") /\ resp'.status = 200) =>
       /\ resp'.transaction_id = MapSize(borrowings) + 1
       /\ \A k \in MapKeys(borrowings) : k < resp'.transaction_id
       /\ \A i \in 1..Len(Ledger) : Ledger[i].transaction_id < resp'.transaction_id
       /\ MapSize(borrowings') = MapSize(borrowings) + 1
       /\ \A i \in 1..Len(borrowings) : borrowings'[i] = borrowings[i]
       /\ borrowings'[Len(borrowings')].key = resp'.transaction_id
       /\ borrowings'[Len(borrowings')].val.transaction_id = resp'.transaction_id]_vars

\* a second Borrow was given id 2 while the borrowing with id 1 is returned
C7_Witness ==
  /\ resp.op = "borrow" /\ resp.status = 200 /\ resp.transaction_id = 2
  /\ Len(Ledger) = 2
  /\ Ledger[1].transaction_id = 1 /\ Ledger[1].status = "returned"
  /\ Ledger[2].transaction_id = 2 /\ Ledger[2].status = "active"

\* C8: when the request after a successful Borrow(m, b) is Return(m, b), the
\* Return succeeds, m.has_borrowed is false and b.is_available is true again,
\* and the record the Borrow created is returned with returned_at >= borrowed_at.
C8_BorrowThenReturn ==
  [][(/\ resp.op = "borrow" /\ resp.status = 200
      /\ Handled("return")
      /\ resp'.member_id = resp.member_id
      /\ resp'.book_id = resp.book_id) =>
       /\ resp'.status = 200
       /\ resp'.transaction_id = resp.transaction_id
       /\ resp.member_id \in DOMAIN members'
       /\ ~members'[resp.member_id].has_borrowed
       /\ resp.book_id \in DOMAIN books'
       /\ books'[resp.book_id].is_available
       /\ MapHas(borrowings', resp.transaction_id)
       /\ LET r == MapGet(borrowings', resp.transaction_id)
          IN /\ r.status = "returned"
             /\ r.returned_at # NoTime
             /\ r.returned_at >= r.borrowed_at]_vars

\* a Return that succeeded at a later time than the Borrow of its record
C8_Witness ==
  /\ resp.op = "return" /\ resp.status = 200
  /\ MapHas(borrowings, resp.transaction_id)
  /\ MapGet(borrowings, resp.transaction_id).status = "returned"
  /\ MapGet(borrowings, resp.transaction_id).returned_at
       > MapGet(borrowings, resp.transaction_id).borrowed_at
  /\ ~members[resp.member_id].has_borrowed
  /\ books[resp.book_id].is_available

\* C9: Delete Member on a member with an active borrowing in the ledger is
\* rejected and changes no member, no book and no ledger record, and every
\* member that a step removes had has_borrowed = false.
C9_NoDeleteWhileBorrowing ==
  [][/\ (Handled("delete_member") /\ ActiveOfMember(resp'.member_id) # {}
           /\ resp'.member_id \in DOMAIN members)
          => (resp'.status = 400 /\ resp'.error = "active-borrowing" /\ StoresUnchanged)
     /\ \A m \in DOMAIN members \ DOMAIN members' :
          ~members[m].has_borrowed /\ ActiveOfMember(m) = {}]_vars

\* Delete Member was refused for a member who holds a book
C9_Witness ==
  /\ resp.op = "delete_member" /\ resp.status = 400
  /\ resp.member_id \in DOMAIN members
  /\ members[resp.member_id].has_borrowed
  /\ ActiveOfMember(resp.member_id) # {}

\* C10 as claimed: the history recorded for a member_id holds one entry for
\* each successful Borrow by that member_id and loses none, so the history of
\* an existing member holds every ledger record made for its id.
C10_HistoryOfIdKeepsEveryBorrow ==
  \A m \in DOMAIN members :
    \A i \in 1..Len(Ledger) :
      Ledger[i].member_id = m =>
        \E j \in 1..Len(members[m].history) :
          members[m].history[j] = Ledger[i].transaction_id

\* C10 as amended: while a member record exists its history only grows, by
\* one entry for each successful Borrow by that member and by nothing else;
\* Delete Member removes the record with its history, and a member created
\* under the same id starts with an empty history.
C10_HistoryOfRecordOnlyGrows ==
  [][/\ \A m \in DOMAIN members \cap DOMAIN members' :
          LET borrowed == /\ Handled("borrow") /\ resp'.status = 200
                          /\ resp'.member_id = m
          IN IF borrowed
             THEN members'[m].history = Append(members[m].history, resp'.transaction_id)
             ELSE members'[m].history = members[m].history
     /\ \A m \in DOMAIN members' \ DOMAIN members : members'[m].history = <<>>]_vars

\* a member whose history holds two borrowings
C10_Witness ==
  \E m \in DOMAIN members : Len(members[m].history) = 2

\* the ledger record with a transaction_id, shown as History shows it
ShownInHistory(transaction_id) ==
  LET b == Ledger[CHOOSE i \in 1..Len(Ledger) : Ledger[i].transaction_id = transaction_id]
  IN [transaction_id |-> b.transaction_id, book_id |-> b.book_id,
      book_title |-> b.book_title, borrowed_at |-> b.borrowed_at,
      returned_at |-> b.returned_at, status |-> b.status]

LedgerOfMember(m) == {i \in 1..Len(Ledger) : Ledger[i].member_id = m}

\* C11 as claimed: History answers NotFound for a missing member and otherwise
\* shows exactly the ledger records with that member_id, oldest first.
C11_HistoryIsLedgerOfId ==
  resp.op = "history" =>
    /\ resp.status = 404 <=> resp.member_id \notin DOMAIN members
    /\ resp.status = 200 =>
         /\ {resp.body[j].transaction_id : j \in 1..Len(resp.body)}
              = {Ledger[i].transaction_id : i \in LedgerOfMember(resp.member_id)}
         /\ \A j \in 1..Len(resp.body) :
              resp.body[j] = ShownInHistory(resp.body[j].transaction_id)
         /\ \A j, k \in 1..Len(resp.body) :
              j < k => resp.body[j].transaction_id < resp.body[k].transaction_id

\* C11 as amended: History answers NotFound for a missing member and otherwise
\* shows the history of the member record, oldest first: one ledger record
\* of that member_id for each entry, every active one among them, and none
\* that is not in the history of the record (the borrowings made under the
\* same id before a Delete Member are not shown).
C11_HistoryIsHistoryOfRecord ==
  resp.op = "history" =>
    /\ resp.status = 404 <=> resp.member_id \notin DOMAIN members
    /\ resp.status = 200 =>
         /\ Len(resp.body) = Len(members[resp.member_id].history)
         /\ \A j \in 1..Len(resp.body) :
              /\ resp.body[j].transaction_id = members[resp.member_id].history[j]
              /\ resp.body[j] = ShownInHistory(resp.body[j].transaction_id)
              /\ \E i \in LedgerOfMember(resp.member_id) :
                   Ledger[i].transaction_id = resp.body[j].transaction_id
         /\ \A i \in ActiveOfMember(resp.member_id) :
              \E j \in 1..Len(resp.body) :
                resp.body[j].transaction_id = Ledger[i].transaction_id
         /\ \A j, k \in 1..Len(resp.body) :
              j < k => resp.body[j].transaction_id < resp.body[k].transaction_id

\* History showed a member's two borrowings, a returned one and an active one
C11_Witness ==
  /\ resp.op = "history" /\ resp.status = 200
  /\ Len(resp.body) = 2
  /\ resp.body[1].status = "returned"
  /\ resp.body[2].status = "active"

\* C12: a successful Borrow adds exactly one record, active, at the end of
\* the ledger, appends it to the member's history, sets the member's
\* has_borrowed and clears the book's is_available, and changes nothing
\* else: every other member, every other book, every earlier ledger record
\* and the other fields of the member and of the book stay as they were.
C12_BorrowFrame ==
  [][(Handled("borrow") /\ resp'.status = 200) =>
       LET m == resp'.member_id
           b == resp'.book_id
           n == Len(Ledger)
       IN /\ Len(Ledger') = n + 1
          /\ \A i \in 1..n : Ledger'[i] = Ledger[i]
          /\ Ledger'[n + 1].status = "active"
          /\ Ledger'[n + 1].member_id = m
          /\ Ledger'[n + 1].book_id = b
          /\ Ledger'[n + 1].transaction_id = resp'.transaction_id
          /\ \A i \in 1..n : Ledger[i].transaction_id # resp'.transaction_id
          /\ DOMAIN members' = DOMAIN members
          /\ \A o \in DOMAIN members \ {m} : members'[o] = members[o]
          /\ members'[m] = [members[m] EXCEPT
                              !.has_borrowed = TRUE,
                              !.history = Append(@, resp'.transaction_id)]
          /\ DOMAIN books' = DOMAIN books
          /\ \A o \in DOMAIN books \ {b} : books'[o] = books[o]
          /\ books'[b] = [books[b] EXCEPT !.is_available = FALSE]
          /\ books[b].is_available]_vars

\* a Borrow succeeded while another book was on the shelf and another
\* member's borrowing was in the ledger
C12_Witness ==
  /\ resp.op = "borrow" /\ resp.status = 200
  /\ Len(Ledger) = 2
  /\ Ledger[1].member_id # resp.member_id
  /\ Ledger[2].transaction_id = resp.transaction_id
  /\ \E o \in DOMAIN books \ {resp.book_id} : books[o].is_available
  /\ members[resp.member_id].history = <<resp.transaction_id>>

OverdueInLedger == {i \in 1..Len(Ledger) :
                      Ledger[i].status = "active" /\ Ledger[i].due_date < now}

\* C13: Overdue answers with exactly the ledger records that are active and
\* due strictly before now, each once: no returned record, no record due
\* at now or later, and nothing at all before the first due date.
C13_OverdueIsActivePastDue ==
  [][Handled("overdue") =>
       /\ resp'.status = 200
       /\ Len(resp'.body) = Cardinality(OverdueInLedger)
       /\ {resp'.body[j].transaction_id : j \in 1..Len(resp'.body)}
            = {Ledger[i].transaction_id : i \in OverdueInLedger}
       /\ \A j \in 1..Len(resp'.body) :
            /\ resp'.body[j].due_date < now
            /\ \E i \in OverdueInLedger :
                 /\ Ledger[i].transaction_id = resp'.body[j].transaction_id
                 /\ Ledger[i].due_date = resp'.body[j].due_date
       /\ (\A i \in 1..Len(Ledger) : now <= Ledger[i].due_date)
            => resp'.body = <<>>]_vars

\* Overdue listed a borrowing whose due date had passed
C13_Witness ==
  /\ resp.op = "overdue" /\ resp.status = 200
  /\ Len(resp.body) = 1
  /\ resp.body[1].due_date < now
  /\ \E i \in 1..Len(Ledger) :
       /\ Ledger[i].status = "active"
       /\ Ledger[i].transaction_id = resp.body[1].transaction_id

\* C14 as claimed: days_overdue of every entry Overdue shows is
\* floor((now - due_date) / 1 day), and an active borrowing is shown with
\* days_overdue 1 when asked 15 days after it was made, 6 when asked 20 days
\* after.
C14_DaysOverdue ==
  [][Handled("overdue") =>
       /\ \A j \in 1..Len(resp'.body) :
            /\ resp'.body[j].days_overdue * Day <= now - resp'.body[j].due_date
            /\ now - resp'.body[j].due_date < (resp'.body[j].days_overdue + 1) * Day
       /\ \A i \in 1..Len(Ledger) :
            Ledger[i].status = "active" =>
              /\ now - Ledger[i].borrowed_at = (LoanDays + 1) * Day =>
                   \E j \in 1..Len(resp'.body) :
                     /\ resp'.body[j].transaction_id = Ledger[i].transaction_id
                     /\ resp'.body[j].days_overdue = 1
              /\ now - Ledger[i].borrowed_at = (LoanDays + 6) * Day =>
                   \E j \in 1..Len(resp'.body) :
                     /\ resp'.body[j].transaction_id = Ledger[i].transaction_id
                     /\ resp'.body[j].days_overdue = 6]_vars

\* C15 as claimed: due_date - borrowed_at is exactly 14 days for every record
\* of the ledger, and no request changes the due_date of a record.
C15_DueAfterFourteenDays ==
  [][/\ \A i \in 1..Len(Ledger') :
          Ledger'[i].due_date - Ledger'[i].borrowed_at = LoanDays * Day
     /\ \A i \in 1..Len(Ledger) :
          /\ i <= Len(Ledger')
          /\ Ledger'[i].due_date = Ledger[i].due_date
          /\ Ledger'[i].borrowed_at = Ledger[i].borrowed_at]_vars

ActiveInLedger == {i \in 1..Len(Ledger) : Ledger[i].status = "active"}

\* C16: the list of borrowed books holds exactly the active records of the
\* ledger, no returned one, each once, in the order of their creation, each
\* shown without status and returned_at.
C16_BorrowedIsActiveInOrder ==
  resp.op = "borrowed" =>
    /\ resp.status = 200
    /\ Len(resp.body) = Cardinality(ActiveInLedger)
    /\ \A j \in 1..Len(resp.body) :
         \E i \in ActiveInLedger :
           resp.body[j] = [transaction_id |-> Ledger[i].transaction_id,
                           member_id |-> Ledger[i].member_id,
                           member_name |-> Ledger[i].member_name,
                           book_id |-> Ledger[i].book_id,
                           book_title |-> Ledger[i].book_title,
                           borrowed_at |-> Ledger[i].borrowed_at,
                           due_date |-> Ledger[i].due_date]
    /\ \A j, k \in 1..Len(resp.body) :
         j < k =>
           \E i, l \in ActiveInLedger :
             /\ i < l
             /\ Ledger[i].transaction_id = resp.body[j].transaction_id
             /\ Ledger[l].transaction_id = resp.body[k].transaction_id

\* two borrowings were listed
C16_Witness ==
  /\ resp.op = "borrowed"
  /\ Len(resp.body) = 2
  /\ Cardinality(ActiveInLedger) = 2

Running(c) == inflight[c].pc \notin {"none", "pending"}

FlagsMatchLedger ==
  /\ \A m \in DOMAIN members : members[m].has_borrowed <=> ActiveOfMember(m) # {}
  /\ \A b \in DOMAIN books : ~books[b].is_available <=> ActiveOfBook(b) # {}

\* C17: however the requests of the clients interleave, a Borrow or a Return
\* runs from its checks to its response with no other handler in between:
\* at most one handler is running, while it runs every change of the stores
\* or of the response is a step of that handler, whenever no handler is
\* running (which is when the next request is handled) the flags of the
\* members and the books match the ledger, and no book ever has two active
\* borrowings, so of two Borrows of one book sent together one fails.
C17_BorrowAndReturnAtomic ==
  /\ [](/\ \A c, d \in Clients : Running(c) /\ Running(d) => c = d
        /\ Idle => FlagsMatchLedger
        /\ \A b \in BookIds : Cardinality(ActiveOfBook(b)) <= 1)
  /\ [][\A c \in Clients :
          Running(c) /\ <<members, books, borrowings, resp>>'
                          # <<members, books, borrowings, resp>>
            => inflight'[c] # inflight[c]]_vars

\* a Borrow is between its writes, the member's flag set and the book's not
\* yet, while the other client's Borrow of the same book waits
C17_Witness ==
  \E c, d \in Clients :
    /\ inflight[c].op = "borrow" /\ inflight[c].pc = "push"
    /\ inflight[d].op = "borrow" /\ inflight[d].pc = "pending"
    /\ inflight[d].book_id = inflight[c].book_id
    /\ inflight[d].member_id # inflight[c].member_id
    /\ inflight[d].member_id \in DOMAIN members
    /\ ~FlagsMatchLedger

\* C18: every record of the ledger stays in the ledger, at its place, with
\* the transaction_id, member_id, book_id, member_name, book_title,
\* borrowed_at and due_date it was created with, whatever request is handled;
\* its status and returned_at change only in a successful Return of that
\* member and book, once, from active to returned at the time of the Return.
C18_LedgerRecordImmutable ==
  [][\A i \in 1..Len(Ledger) :
       /\ i <= Len(Ledger')
       /\ Ledger'[i].transaction_id = Ledger[i].transaction_id
       /\ Ledger'[i].member_id = Ledger[i].member_id
       /\ Ledger'[i].book_id = Ledger[i].book_id
       /\ Ledger'[i].member_name = Ledger[i].member_name
       /\ Ledger'[i].book_title = Ledger[i].book_title
       /\ Ledger'[i].borrowed_at = Ledger[i].borrowed_at
       /\ Ledger'[i].due_date = Ledger[i].due_date
       /\ Ledger'[i] # Ledger[i] =>
            /\ Handled("return") /\ resp'.status = 200
            /\ resp'.member_id = Ledger[i].member_id
            /\ resp'.book_id = Ledger[i].book_id
            /\ Ledger[i].status = "active" /\ Ledger[i].returned_at = NoTime
            /\ Ledger'[i].status = "returned" /\ Ledger'[i].returned_at = now]_vars

\* a record keeps the name and the title of its Borrow while the member has
\* been renamed and the book id now belongs to a book with another title
C18_Witness ==
  \E i \in 1..Len(Ledger) :
    /\ Ledger[i].member_id \in DOMAIN members
    /\ members[Ledger[i].member_id].name # Ledger[i].member_name
    /\ Ledger[i].book_id \in DOMAIN books
    /\ books[Ledger[i].book_id].title # Ledger[i].book_title

\* C19: every active record of the ledger names a member and a book that
\* are in the stores, so the Return that found its record finds the book
\* too: no Return ends in the TypeError of a missing book.
C19_ActiveRecordHasMemberAndBook ==
  /\ \A i \in 1..Len(Ledger) :
       Ledger[i].status = "active" =>
         /\ Ledger[i].member_id \in DOMAIN members
         /\ Ledger[i].book_id \in DOMAIN books
  /\ resp.status # 500

\* a Return succeeded while the other member's borrowing, made before,
\* was active
C19_Witness ==
  /\ resp.op = "return" /\ resp.status = 200
  /\ Len(Ledger) = 2
  /\ Ledger[1].status = "active"
  /\ Ledger[2].status = "returned"
  /\ resp.transaction_id = Ledger[2].transaction_id
  /\ books[resp.book_id].is_available

\* C20: every entry of the history of an existing member is a record of the
\* ledger, and History shows it with the status and the returned_at the
\* ledger has for that transaction_id: returned with a time after the
\* Return, and without a time exactly while it is active.
C20_HistoryAgreesWithLedger ==
  /\ \A m \in DOMAIN members :
       \A j \in 1..Len(members[m].history) :
         \E i \in 1..Len(Ledger) :
           /\ Ledger[i].transaction_id = members[m].history[j]
           /\ Ledger[i].status = "active" <=> Ledger[i].returned_at = NoTime
  /\ resp.op = "history" /\ resp.status = 200 =>
       \A j \in 1..Len(resp.body) :
         /\ \E i \in 1..Len(Ledger) :
              /\ Ledger[i].transaction_id = resp.body[j].transaction_id
              /\ Ledger[i].status = resp.body[j].status
              /\ Ledger[i].returned_at = resp.body[j].returned_at
         /\ resp.body[j].status \in {"active", "returned"}
         /\ resp.body[j].returned_at = NoTime <=> resp.body[j].status = "active"

\* History showed a returned borrowing of a member who holds no book now
C20_Witness ==
  /\ resp.op = "history" /\ resp.status = 200
  /\ Len(resp.body) >= 1
  /\ resp.body[1].status = "returned"
  /\ resp.body[1].returned_at # NoTime
  /\ ~members[resp.member_id].has_borrowed
====
